---------------------------- MODULE Spec2Model ----------------------------
(***************************************************************************)
(* Model of app.py (HISTORIAL FIRMANTE): the amount normalizer             *)
(* limpiar_importe_agresivo, the display formatter formato_argentino, the  *)
(* loader cargar_datos and the reporting pass of main.                     *)
(*                                                                         *)
(* Text is a sequence of one-character strings.  A cell value is a record: *)
(*   [kind |-> "str", s |-> text]        a Python str                      *)
(*   [kind |-> "nan"]                    the missing value (NaN / None)    *)
(*   [kind |-> "int", neg, ip]           a Python int, ip its digits       *)
(*   [kind |-> "float", neg, ip, fp]     a Python float, written in        *)
(*                                       decimal: ip . fp                  *)
(* A float is carried as its exact decimal expansion (sign, integer        *)
(* digits without leading zeros, fraction digits without trailing zeros),  *)
(* so texts of up to 50 digits convert without a machine-integer overflow. *)
(* Binary rounding of floats is not modelled.                              *)
(* The source's non-ASCII letter in 'Tipo de Operacion' is written o.      *)
(***************************************************************************)
EXTENDS Integers, Sequences, FiniteSets, TLC

VARIABLES
    n_pc,       \* normalizer run: "start", "formatted", "done"
    n_in,       \* normalizer run: the input (a cell value or an amount)
    n_txt,      \* normalizer run: the text formato_argentino produced
    n_out,      \* normalizer run: what limpiar_importe_agresivo returned
    n_conv,     \* normalizer run: whether float() was called
    file,       \* main: the uploaded file [kind, sep, lines]
    pos,        \* main: the read position of uploaded_file, in lines
    pc,         \* main: where the run is
    strat,      \* cargar_datos: index of the strategy the loop is at
    attempts,   \* cargar_datos: history of the reads, one record per attempt
    df,         \* main: the table cargar_datos returned, or None
    df_filtrado,    \* main: the filtered rows, each with its Importe_Num
    filas_error,    \* main: the rows whose Importe_Num is missing
    calc,       \* main: the computed metrics
    steps,      \* main: the processing steps that have run
    ui,         \* main: what was shown to the user, in order
    stop        \* main: why the run ended

nvars == <<n_pc, n_in, n_txt, n_out, n_conv>>
mvars == <<file, pos, pc, strat, attempts, df, df_filtrado, filas_error,
           calc, steps, ui, stop>>
vars == <<nvars, mvars>>

-----------------------------------------------------------------------------
(* Bounds of the checked inputs *)

\* Longest run of one character in a generated long cell is LongThreshold + LenSlack.
LenSlack == 10
\* Surrounding whitespace of a generated cell: 0, 1 or PadLen characters.
PadLen == 12
\* Longest integer part of a generated amount text.
MaxIntChars == 4
\* Longest integer part (in digits) of an amount handed to formato_argentino.
MaxAmountDigits == 38
\* Longest integer part (in digits) of a native number handed to the normalizer.
MaxNativeDigits == 3

\* Most data rows of an uploaded file.
MaxRows == 2
\* Decimal digits the sums are carried with (fixed point, exact for the inputs).
SumScale == 2

\* src/app.py:21  len(val_str) > 50
LongThreshold == 50

-----------------------------------------------------------------------------
(* Text helpers *)

Digit == {"0", "1", "2", "3", "4", "5", "6", "7", "8", "9"}

\* The characters str.strip() removes (those the inputs use).
Whitespace == {" ", "\t"}

Rep(c, n) == [i \in 1..n |-> c]

RECURSIVE LStrip(_)
LStrip(s) ==
    IF s # <<>> /\ Head(s) \in Whitespace THEN LStrip(Tail(s)) ELSE s

RECURSIVE RStrip(_)
RStrip(s) ==
    IF s # <<>> /\ s[Len(s)] \in Whitespace
    THEN RStrip(SubSeq(s, 1, Len(s) - 1))
    ELSE s

\* str.strip()
Strip(s) == RStrip(LStrip(s))

\* str.replace(a, b) for one-character a and b
Replace(s, a, b) == [i \in 1..Len(s) |-> IF s[i] = a THEN b ELSE s[i]]

IsAmountChar(c) == c \in Digit \cup {",", "-"}

\* re.sub(r'[^\d,-]', '', s)
ReSubKeep(s) == SelectSeq(s, IsAmountChar)

Count(s, c) == Cardinality({i \in 1..Len(s) : s[i] = c})

RECURSIVE DropLeadingZeros(_)
DropLeadingZeros(s) ==
    IF s # <<>> /\ Head(s) = "0" THEN DropLeadingZeros(Tail(s)) ELSE s

RECURSIVE DropTrailingZeros(_)
DropTrailingZeros(s) ==
    IF s # <<>> /\ s[Len(s)] = "0"
    THEN DropTrailingZeros(SubSeq(s, 1, Len(s) - 1))
    ELSE s

-----------------------------------------------------------------------------
(* Values *)

None == [kind |-> "None"]
NaN == [kind |-> "nan"]

\* The float whose decimal expansion is (-)ip.fp; -0.0 compares equal to 0.0.
MkFloat(neg, ip, fp) ==
    LET i == DropLeadingZeros(ip)
        f == DropTrailingZeros(fp)
    IN  [kind |-> "float", neg |-> neg /\ (i # <<>> \/ f # <<>>), ip |-> i, fp |-> f]

Zero == MkFloat(FALSE, <<>>, <<>>)

Negate(v) == IF v.kind = "float" THEN MkFloat(~v.neg, v.ip, v.fp) ELSE v

\* pd.isna(val)
IsNa(v) == v.kind \in {"nan", "None"}

\* Python's == between two numbers (int or float).
NumEq(a, b) ==
    /\ a.kind \in {"int", "float"}
    /\ b.kind \in {"int", "float"}
    /\ MkFloat(a.neg, a.ip, IF a.kind = "float" THEN a.fp ELSE <<>>)
         = MkFloat(b.neg, b.ip, IF b.kind = "float" THEN b.fp ELSE <<>>)

\* str(val)
Str(v) ==
    CASE v.kind = "str" -> v.s
      [] v.kind = "nan" -> <<"n", "a", "n">>
      [] v.kind = "None" -> <<"N", "o", "n", "e">>
      [] v.kind = "int" ->
            (IF v.neg THEN <<"-">> ELSE <<>>)
              \o (IF v.ip = <<>> THEN <<"0">> ELSE v.ip)
      [] v.kind = "float" ->
            (IF v.neg THEN <<"-">> ELSE <<>>)
              \o (IF v.ip = <<>> THEN <<"0">> ELSE v.ip)
              \o <<".">>
              \o (IF v.fp = <<>> THEN <<"0">> ELSE v.fp)

\* float(s) for a text of digits, '.' and '-': None stands for ValueError.
PyFloat(s) ==
    LET neg == s # <<>> /\ Head(s) = "-"
        body == IF neg THEN Tail(s) ELSE s
        dot == IF Count(body, ".") = 1
               THEN CHOOSE i \in 1..Len(body) : body[i] = "."
               ELSE Len(body) + 1
    IN  IF \/ Count(body, "-") > 0
           \/ Count(body, ".") > 1
           \/ \A i \in 1..Len(body) : body[i] \notin Digit
        THEN None
        ELSE MkFloat(neg, SubSeq(body, 1, dot - 1), SubSeq(body, dot + 1, Len(body)))

\* The variables of the other kind of run, at rest.
MainIdle ==
    /\ file = None /\ pos = 0 /\ pc = "idle" /\ strat = 0 /\ attempts = <<>>
    /\ df = None /\ df_filtrado = <<>> /\ filas_error = <<>> /\ calc = None
    /\ steps = {} /\ ui = <<>> /\ stop = "none"

NormIdle ==
    /\ n_pc = "idle" /\ n_in = None /\ n_txt = <<>> /\ n_out = None
    /\ n_conv = FALSE

-----------------------------------------------------------------------------
(* limpiar_importe_agresivo *)

\* Limpio without lines 30-31: a trailing '-' is left where it is.
Limpio_SignNotMoved(val_str) == Replace(ReSubKeep(val_str), ",", ".")

\* Lines 27-34: the cleaned text handed to float().
Limpio(val_str) ==
    LET kept == ReSubKeep(val_str)
        moved == IF kept # <<>> /\ kept[Len(kept)] = "-"
                 THEN <<"-">> \o SubSeq(kept, 1, Len(kept) - 1)
                 ELSE kept
    IN  Replace(moved, ",", ".")

\* LimpiarTrace without lines 21-22: no length check before the conversion.
LimpiarTrace_NoLengthCheck(val) ==
    IF IsNa(val) \/ Strip(Str(val)) = <<>>
    THEN [ret |-> Zero, conv |-> FALSE]
    ELSE [ret |-> PyFloat(Limpio(Strip(Str(val)))), conv |-> TRUE]

\* The function with its trace: ret is the returned value, conv tells whether
\* float() was reached.
LimpiarTrace(val) ==
    IF IsNa(val) \/ Strip(Str(val)) = <<>>
    THEN [ret |-> Zero, conv |-> FALSE]
    ELSE LET val_str == Strip(Str(val))
         IN  IF Len(val_str) > LongThreshold
             THEN [ret |-> None, conv |-> FALSE]
             ELSE [ret |-> PyFloat(Limpio(val_str)), conv |-> TRUE]

limpiar_importe_agresivo(val) == LimpiarTrace(val).ret

-----------------------------------------------------------------------------
(* formato_argentino *)

\* The ',' grouping of "{:,}": a comma before every group of three digits.
RECURSIVE Group3(_)
Group3(ip) ==
    IF Len(ip) <= 3
    THEN ip
    ELSE Group3(SubSeq(ip, 1, Len(ip) - 3)) \o <<",">>
           \o SubSeq(ip, Len(ip) - 2, Len(ip))

\* "{:,.2f}".format(valor), for a valor of at most two fraction digits.
Format2f(valor) ==
    (IF valor.neg THEN <<"-">> ELSE <<>>)
      \o Group3(IF valor.ip = <<>> THEN <<"0">> ELSE valor.ip)
      \o <<".">>
      \o valor.fp \o Rep("0", 2 - Len(valor.fp))

\* formato_argentino swapping the separators without the "X" placeholder.
formato_argentino_NoPlaceholder(valor) ==
    IF IsNa(valor)
    THEN <<"0", ",", "0", "0">>
    ELSE Replace(Replace(Format2f(valor), ",", "."), ".", ",")

formato_argentino(valor) ==
    IF IsNa(valor)
    THEN <<"0", ",", "0", "0">>
    ELSE Replace(Replace(Replace(Format2f(valor), ",", "X"), ".", ","), "X", ".")

-----------------------------------------------------------------------------
(* Inputs of the normalizer runs *)

Seqs(S, n) == UNION {[1..k -> S] : k \in 0..n}

StrCell(s) == [kind |-> "str", s |-> s]

NoLeadingZero(s) == s = <<>> \/ Head(s) # "0"
NoTrailingZero(s) == s = <<>> \/ s[Len(s)] # "0"

NativeIntParts == {s \in Seqs({"0", "1", "5"}, MaxNativeDigits) : NoLeadingZero(s)}
NativeFracParts == {s \in Seqs({"0", "5"}, 2) : NoTrailingZero(s)}

\* Cells around the length threshold: a run of one character, with or without
\* a trailing '-', padded.
RunLengths == {0, 1} \cup ((LongThreshold - 1)..(LongThreshold + LenSlack))
PadLengths == {0, 1, PadLen}
LongCell(l, c, n, m, w, r) == StrCell(Rep(" ", l) \o Rep(c, n) \o m \o Rep(w, r))

\* Amount texts under the '.' grouping / ',' decimal convention.
IntTexts ==
    {s \in Seqs({"0", "1", "."}, MaxIntChars) : s # <<>> /\ Head(s) \in Digit}
DecTexts == {<<>>} \cup {<<",">> \o f : f \in Seqs({"0", "5"}, 2)}

OddCells ==
    {NaN, StrCell(<<>>), StrCell(<<"-">>), StrCell(<<"a", "b", "c">>),
     StrCell(<<"-", "1", "0", "0", ",", "5", "0">>),
     StrCell(<<"1", ",", "2", ",", "3">>), StrCell(<<"1", "-", "2">>),
     StrCell(<<"-", "5", "-">>), StrCell(<<"\"", "7", "\"">>)}

\* The integer digits of an amount: the digit d repeated n times, or d
\* followed by n - 1 zeros.
AmountIntPart(d, n, zeros) ==
    IF zeros /\ n > 0 THEN <<d>> \o Rep("0", n - 1) ELSE Rep(d, n)

\* The cents of an amount: 0, 5, 25 or 50.
AmountFracParts == {<<>>, <<"0", "5">>, <<"2", "5">>, <<"5">>}

CellInput(c) == [tag |-> "cell", v |-> c]
AmountInput(a) == [tag |-> "amount", v |-> a]

\* The inputs of a run: a native number (an int, or a float in the range
\* str() writes without exponent), a cell around the length threshold, an
\* amount text with or without '$ ' before and '-' after it, an odd cell, or
\* an amount of at most two decimal places (or NaN) for the formatter.
IsNormInput(x) ==
    \/ \E b \in BOOLEAN, i \in NativeIntParts :
          x = CellInput([kind |-> "int", neg |-> b, ip |-> i])
    \/ \E b \in BOOLEAN, i \in NativeIntParts, f \in NativeFracParts :
          x = CellInput([kind |-> "float", neg |-> b, ip |-> i, fp |-> f])
    \/ \E l \in PadLengths, c \in {"7", "x", ",", " "}, n \in RunLengths,
          m \in {<<>>, <<"-">>}, w \in Whitespace, r \in PadLengths :
          x = CellInput(LongCell(l, c, n, m, w, r))
    \/ \E p \in {<<>>, <<"$", " ">>}, i \in IntTexts, d \in DecTexts,
          m \in {<<>>, <<"-">>} :
          x = CellInput(StrCell(p \o i \o d \o m))
    \/ \E c \in OddCells : x = CellInput(c)
    \/ \E b \in BOOLEAN, d \in {"1", "9"}, n \in 0..MaxAmountDigits,
          z \in BOOLEAN, f \in AmountFracParts :
          x = AmountInput(MkFloat(b, AmountIntPart(d, n, z), f))
    \/ x = AmountInput(NaN)

-----------------------------------------------------------------------------
(* Normalizer runs: one application of the pure functions to one input *)

NormInit ==
    /\ n_pc = "start"
    /\ IsNormInput(n_in)
    /\ n_txt = <<>>
    /\ n_out = None
    /\ n_conv = FALSE
    /\ MainIdle

\* limpiar_importe_agresivo(cell)
Normalize ==
    /\ n_pc = "start"
    /\ n_in.tag = "cell"
    /\ n_out' = limpiar_importe_agresivo(n_in.v)
    /\ n_conv' = LimpiarTrace(n_in.v).conv
    /\ n_pc' = "done"
    /\ UNCHANGED <<n_in, n_txt, mvars>>

\* formato_argentino(amount)
Format ==
    /\ n_pc = "start"
    /\ n_in.tag = "amount"
    /\ n_txt' = formato_argentino(n_in.v)
    /\ n_pc' = "formatted"
    /\ UNCHANGED <<n_in, n_out, n_conv, mvars>>

\* limpiar_importe_agresivo(formato_argentino(amount))
Renormalize ==
    /\ n_pc = "formatted"
    /\ n_out' = limpiar_importe_agresivo(StrCell(n_txt))
    /\ n_conv' = LimpiarTrace(StrCell(n_txt)).conv
    /\ n_pc' = "done"
    /\ UNCHANGED <<n_in, n_txt, mvars>>

NormNext == Normalize \/ Format \/ Renormalize

SpecNorm == NormInit /\ [][NormNext]_vars

-----------------------------------------------------------------------------
(* Texts the program names *)

TIPO == <<"T", "i", "p", "o", " ", "d", "e", " ", "O", "p", "e", "r", "a", "c", "i", "o", "n">>
IMPORTE == <<"I", "m", "p", "o", "r", "t", "e">>
ESTADO == <<"E", "s", "t", "a", "d", "o">>
FECHA == <<"F", "e", "c", "h", "a", " ", "d", "e", " ", "O", "p">>
CHEQUE == <<"C", "h", "e", "q", "u", "e">>
CO_COMPRA == <<"C", "O", " ", "-", " ", "C", "o", "m", "p", "r", "a">>
ACREDITADO == <<"A", "C", "R", "E", "D", "I", "T", "A", "D", "O">>
RECHAZADO == <<"R", "E", "C", "H", "A", "Z", "A", "D", "O">>

LowerAlpha ==
    <<"a", "b", "c", "d", "e", "f", "g", "h", "i", "j", "k", "l", "m",
      "n", "o", "p", "q", "r", "s", "t", "u", "v", "w", "x", "y", "z">>
UpperAlpha ==
    <<"A", "B", "C", "D", "E", "F", "G", "H", "I", "J", "K", "L", "M",
      "N", "O", "P", "Q", "R", "S", "T", "U", "V", "W", "X", "Y", "Z">>

\* str.upper() and str.lower()
Upper(s) ==
    [i \in 1..Len(s) |->
        IF \E k \in 1..Len(LowerAlpha) : LowerAlpha[k] = s[i]
        THEN UpperAlpha[CHOOSE k \in 1..Len(LowerAlpha) : LowerAlpha[k] = s[i]]
        ELSE s[i]]
Lower(s) ==
    [i \in 1..Len(s) |->
        IF \E k \in 1..Len(UpperAlpha) : UpperAlpha[k] = s[i]
        THEN LowerAlpha[CHOOSE k \in 1..Len(UpperAlpha) : UpperAlpha[k] = s[i]]
        ELSE s[i]]

\* sub occurs in s (str.contains with a pattern of literal characters)
Contains(s, sub) ==
    \E i \in 1..(Len(s) - Len(sub) + 1) : SubSeq(s, i, i + Len(sub) - 1) = sub

Range(s) == {s[i] : i \in 1..Len(s)}

-----------------------------------------------------------------------------
(* The uploaded file and the pandas readers *)

\* A file is [kind, sep, as_csv, lines]: kind "text" (delimited text, sep
\* between the fields of a line) or "xlsx" (a real workbook, lines being its
\* sheet rows, as_csv what read_csv makes of its bytes); a line is the
\* sequence of its raw fields.  Offsets count lines.

QUOTE == "\""

\* csv quoting: a field wrapped in double quotes loses them.
Unquote(f) ==
    IF Len(f) >= 2 /\ Head(f) = QUOTE /\ f[Len(f)] = QUOTE
    THEN SubSeq(f, 2, Len(f) - 1)
    ELSE f

RECURSIVE Join(_, _)
Join(fields, sep) ==
    IF fields = <<>> THEN <<>>
    ELSE IF Len(fields) = 1 THEN fields[1]
    ELSE fields[1] \o <<sep>> \o Join(Tail(fields), sep)

\* dtype=str: an empty field is read as the missing value.
AsCell(f) == IF f = <<>> THEN NaN ELSE StrCell(f)

Table(columns, rows) == [columns |-> columns, rows |-> rows]

\* The fields read_csv finds in a line of a text file.
CsvFields(f, params, line) ==
    IF params.sep = f.sep
    THEN IF params.quote_none THEN line ELSE [j \in 1..Len(line) |-> Unquote(line[j])]
    ELSE <<Join(line, f.sep)>>

\* The table read_csv builds from the lines after offset start: the first is
\* the header, longer lines are skipped (on_bad_lines='skip'), shorter ones
\* are filled with missing values.
CsvTable(f, params, start) ==
    LET rest == SubSeq(f.lines, start + 1, Len(f.lines))
        columns == CsvFields(f, params, rest[1])
        n == Len(columns)
        good == SelectSeq(Tail(rest), LAMBDA l : Len(CsvFields(f, params, l)) <= n)
    IN  Table(columns,
              [r \in 1..Len(good) |->
                  LET fs == CsvFields(f, params, good[r])
                  IN  [j \in 1..n |-> IF j <= Len(fs) THEN AsCell(fs[j]) ELSE NaN]])

Raised(f, start) ==
    {[raised |-> TRUE, df |-> None, endpos |-> e] : e \in start..Len(f.lines)}

Returned(f, table) ==
    {[raised |-> FALSE, df |-> table, endpos |-> Len(f.lines)]}

\* pd.read_csv(uploaded_file, dtype=str, on_bad_lines='skip', **params) with
\* the file positioned at start: the set of results it may give.  No data
\* left raises EmptyDataError.  What the bytes of a workbook give when read as
\* text is a property of the file (as_csv): the tokenizer raises midway or
\* after consuming them, or a table of one or two meaningless columns comes back.
ReadCsv(f, params, start) ==
    IF start >= Len(f.lines)
    THEN Raised(f, start)
    ELSE IF f.kind = "xlsx"
    THEN CASE f.as_csv = "raises" ->
                {[raised |-> TRUE, df |-> None, endpos |-> Len(f.lines)]}
           [] f.as_csv = "raises_midway" ->
                {[raised |-> TRUE, df |-> None, endpos |-> start + 1]}
           [] f.as_csv = "one_column" ->
                Returned(f, Table(<<<<"P", "K">>>>, <<>>))
           [] f.as_csv = "two_columns" ->
                Returned(f, Table(<<<<"P", "K">>, <<"x">>>>, <<>>))
    ELSE Returned(f, CsvTable(f, params, start))

\* pd.read_excel(uploaded_file, dtype=str): it rewinds the stream itself to
\* recognize the format, and raises on anything that is not a workbook.
ReadExcel(f, start) ==
    IF f.kind # "xlsx"
    THEN Raised(f, start)
    ELSE IF f.lines = <<>>
    THEN Returned(f, Table(<<>>, <<>>))
    ELSE Returned(f, Table(f.lines[1],
                           [r \in 1..(Len(f.lines) - 1) |->
                               [j \in 1..Len(f.lines[1]) |->
                                   IF j <= Len(f.lines[r + 1])
                                   THEN AsCell(f.lines[r + 1][j])
                                   ELSE NaN]]))

-----------------------------------------------------------------------------
(* cargar_datos *)

strategies ==
    <<[excel |-> FALSE, sep |-> "\t", quote_none |-> TRUE],
      [excel |-> FALSE, sep |-> "\t", quote_none |-> FALSE],
      [excel |-> FALSE, sep |-> ";", quote_none |-> FALSE],
      [excel |-> TRUE, sep |-> "", quote_none |-> FALSE]>>

\* uploaded_file.seek(0) skipped: the position stays where it was.
Seek0_Missing(p) == p

\* uploaded_file.seek(0): the new position.
Seek0(p) == 0

\* Line 77 with 'or' for 'and'.
BasicCheck_Or(t) == Len(t.columns) > 1 \/ TIPO \in Range(t.columns)

\* Line 77 comparing trimmed column names.
BasicCheck_Trimmed(t) ==
    Len(t.columns) > 1 /\ \E i \in 1..Len(t.columns) : Strip(t.columns[i]) = TIPO

\* Line 77: len(df.columns) > 1 and 'Tipo de Operacion' in df.columns
BasicCheck(t) == Len(t.columns) > 1 /\ TIPO \in Range(t.columns)

\* The read of one loop iteration, the file positioned at start.
ReadWith(f, params, start) ==
    IF params.excel THEN ReadExcel(f, start) ELSE ReadCsv(f, params, start)

\* One iteration of the loop of lines 67-80: rewind, read, check; return the
\* table or go on to the next strategy.
TryStrategy ==
    /\ pc = "cargar_datos"
    /\ strat <= Len(strategies)
    /\ LET start == Seek0(pos)
       IN  \E o \in ReadWith(file, strategies[strat], start) :
            /\ pos' = o.endpos
            /\ attempts' = Append(attempts,
                                  [strategy |-> strat, start |-> start,
                                   raised |-> o.raised, df |-> o.df,
                                   endpos |-> o.endpos])
            /\ IF ~o.raised /\ BasicCheck(o.df)
               THEN /\ df' = o.df
                    /\ pc' = "loaded"
                    /\ strat' = strat
               ELSE /\ strat' = strat + 1
                    /\ UNCHANGED <<df, pc>>
    /\ UNCHANGED <<file, df_filtrado, filas_error, calc, steps, ui, stop, nvars>>

\* Line 82: every strategy was tried; return None.
ReturnNone ==
    /\ pc = "cargar_datos"
    /\ strat > Len(strategies)
    /\ df' = None
    /\ pc' = "loaded"
    /\ UNCHANGED <<file, pos, strat, attempts, df_filtrado, filas_error, calc,
                   steps, ui, stop, nvars>>

-----------------------------------------------------------------------------
(* main: the reporting pass over the loaded table *)

req_cols == <<TIPO, IMPORTE, ESTADO>>

\* Position of the column named name.
ColIdx(t, name) == CHOOSE i \in 1..Len(t.columns) : t.columns[i] = name

DigitSeq == <<"0", "1", "2", "3", "4", "5", "6", "7", "8", "9">>
DigitVal(c) == (CHOOSE i \in 1..Len(DigitSeq) : DigitSeq[i] = c) - 1

RECURSIVE ToInt(_)
ToInt(ds) ==
    IF ds = <<>> THEN 0
    ELSE 10 * ToInt(SubSeq(ds, 1, Len(ds) - 1)) + DigitVal(ds[Len(ds)])

\* A float as an integer count of 10^-SumScale units.
Scaled(v) ==
    LET frac == SubSeq(v.fp \o Rep("0", SumScale), 1, SumScale)
        m == ToInt(v.ip \o frac)
    IN  IF v.neg THEN 0 - m ELSE m

\* Series.sum() of the Importe_Num of rows, in 10^-SumScale units.
RECURSIVE SumImporte(_)
SumImporte(rows) ==
    IF rows = <<>> THEN 0
    ELSE Scaled(Head(rows).Importe_Num) + SumImporte(Tail(rows))

\* Line 97: df is None -> st.error, return.
ReportLoadError ==
    /\ pc = "loaded"
    /\ df = None
    /\ ui' = Append(ui, [msg |-> "load_error"])
    /\ pc' = "stopped"
    /\ stop' = "load_error"
    /\ UNCHANGED <<file, pos, strat, attempts, df, df_filtrado, filas_error,
                   calc, steps, nvars>>

\* Lines 102-110: trim the column names, then require req_cols.
Validate ==
    /\ pc = "loaded"
    /\ df # None
    /\ LET cols == [i \in 1..Len(df.columns) |-> Strip(df.columns[i])]
           missing == SelectSeq(req_cols, LAMBDA c : c \notin Range(cols))
       IN  /\ df' = [df EXCEPT !.columns = cols]
           /\ steps' = steps \cup {"validate"}
           /\ IF missing # <<>>
              THEN /\ ui' = Append(ui, [msg |-> "schema_error",
                                        missing |-> missing, found |-> cols])
                   /\ pc' = "stopped"
                   /\ stop' = "schema_error"
              ELSE /\ pc' = "filter"
                   /\ UNCHANGED <<ui, stop>>
    /\ UNCHANGED <<file, pos, strat, attempts, df_filtrado, filas_error, calc,
                   nvars>>

\* Line 113: the rows whose 'Tipo de Operacion' contains 'CO - Compra',
\* whatever the case of the letters.
IsCompra(t, row) ==
    Contains(Lower(Str(row[ColIdx(t, TIPO)])), Lower(CO_COMPRA))

\* Lines 113-117: filter; nothing left -> st.warning, return.
Filter ==
    /\ pc = "filter"
    /\ LET kept == SelectSeq(df.rows, LAMBDA r : IsCompra(df, r))
       IN  /\ df_filtrado' = [i \in 1..Len(kept) |-> [cells |-> kept[i]]]
           /\ steps' = steps \cup {"filter"}
           /\ IF kept = <<>>
              THEN /\ ui' = Append(ui, [msg |-> "empty_warning"])
                   /\ pc' = "stopped"
                   /\ stop' = "empty_filter"
              ELSE /\ pc' = "clean"
                   /\ UNCHANGED <<ui, stop>>
    /\ UNCHANGED <<file, pos, strat, attempts, df, filas_error, calc, nvars>>

\* Line 125 taking a zero amount for a failed one.
FilasError_ZeroToo(rows) ==
    SelectSeq(rows, LAMBDA r : IsNa(r.Importe_Num) \/ r.Importe_Num = Zero)

\* Line 125: the rows whose Importe_Num is missing.
FilasError(rows) == SelectSeq(rows, LAMBDA r : IsNa(r.Importe_Num))

\* The columns the diagnostic view shows of a row (line 136).
DiagView(t, r) ==
    <<r.cells[ColIdx(t, TIPO)], r.cells[ColIdx(t, IMPORTE)], r.cells[ColIdx(t, ESTADO)]>>

\* Lines 121-136: Importe_Num, the failed rows, fillna(0.0), the alert.
Clean ==
    /\ pc = "clean"
    /\ LET k == ColIdx(df, IMPORTE)
           with_num == [i \in 1..Len(df_filtrado) |->
                           [cells |-> df_filtrado[i].cells,
                            Importe_Num |->
                                limpiar_importe_agresivo(df_filtrado[i].cells[k])]]
           failed == FilasError(with_num)
       IN  /\ filas_error' = failed
           /\ df_filtrado' = [i \in 1..Len(with_num) |->
                                 [with_num[i] EXCEPT !.Importe_Num =
                                     IF IsNa(@) THEN Zero ELSE @]]
           /\ ui' = IF failed # <<>>
                    THEN Append(ui, [msg |-> "parse_alert",
                                     count |-> Len(failed),
                                     rows |-> [i \in 1..Len(failed) |->
                                                  DiagView(df, failed[i])]])
                    ELSE ui
    /\ steps' = steps \cup {"normalize"}
    /\ pc' = "aggregate"
    /\ UNCHANGED <<file, pos, strat, attempts, df, calc, stop, nvars>>

RECURSIVE GCD(_, _)
GCD(a, b) == IF b = 0 THEN a ELSE GCD(b, a % b)

Abs(a) == IF a < 0 THEN 0 - a ELSE a

\* The number a / b (b # 0) as a fraction in lowest terms, den positive.
Fraction(a, b) ==
    LET g == GCD(Abs(a), Abs(b))
        s == IF b < 0 THEN 0 - 1 ELSE 1
    IN  [num |-> s * (a \div g), den |-> Abs(b) \div g]

\* part / total * 100
Ratio100(part, total) == Fraction(part * 100, total)

\* Lines 148-153, for one of the two percentages.
Porcentaje(part, importe_total) ==
    IF importe_total > 0 THEN Ratio100(part, importe_total) ELSE [num |-> 0, den |-> 1]

EstadoContains(t, r, word) ==
    Contains(Upper(Str(r.cells[ColIdx(t, ESTADO)])), word)

\* Lines 139-153: the sums, the count and the percentages.
Aggregate ==
    /\ pc = "aggregate"
    /\ LET importe_total == SumImporte(df_filtrado)
           total_acreditado ==
               SumImporte(SelectSeq(df_filtrado,
                                    LAMBDA r : EstadoContains(df, r, ACREDITADO)))
           total_rechazado ==
               SumImporte(SelectSeq(df_filtrado,
                                    LAMBDA r : EstadoContains(df, r, RECHAZADO)))
       IN  calc' = [importe_total |-> importe_total,
                    cantidad_cheques |-> Len(df_filtrado),
                    total_acreditado |-> total_acreditado,
                    total_rechazado |-> total_rechazado,
                    pct_acreditado |-> Porcentaje(total_acreditado, importe_total),
                    pct_rechazado |-> Porcentaje(total_rechazado, importe_total)]
    /\ steps' = steps \cup {"aggregate"}
    /\ pc' = "display"
    /\ UNCHANGED <<file, pos, strat, attempts, df, df_filtrado, filas_error, ui,
                   stop, nvars>>

\* Lines 156-171: the four metrics and the sentence.
Display ==
    /\ pc = "display"
    /\ ui' = ui \o <<[msg |-> "metrics", calc |-> calc],
                     [msg |-> IF calc.total_rechazado > 0
                              THEN "phrase_rejections"
                              ELSE "phrase_no_rejections"]>>
    /\ steps' = steps \cup {"display"}
    /\ pc' = "detail"
    /\ UNCHANGED <<file, pos, strat, attempts, df, df_filtrado, filas_error,
                   calc, stop, nvars>>

\* Lines 173-174: the detail table selects 'Fecha de Op' and 'Cheque' too; a
\* column that is not there raises KeyError and the run ends on it.
Detail ==
    /\ pc = "detail"
    /\ IF {FECHA, CHEQUE, IMPORTE, ESTADO} \subseteq Range(df.columns)
       THEN /\ ui' = Append(ui, [msg |-> "detail"])
            /\ stop' = "complete"
       ELSE /\ ui' = Append(ui, [msg |-> "exception"])
            /\ stop' = "KeyError"
    /\ pc' = "stopped"
    /\ UNCHANGED <<file, pos, strat, attempts, df, df_filtrado, filas_error,
                   calc, steps, nvars>>

-----------------------------------------------------------------------------
(* The uploaded files of the checked runs *)

Padded(name) == <<" ">> \o name \o <<" ">>

\* One header field of a role: absent, the exact name or the padded name.
HeaderField(name, how) ==
    CASE how = "absent" -> <<>>
      [] how = "exact" -> <<name>>
      [] how = "padded" -> <<Padded(name)>>

HeaderShapes ==
    [t : {"absent", "exact", "padded"}, i : {"absent", "exact", "padded"},
     e : {"absent", "exact"}, fc : {"absent", "exact"}]

HeaderOf(h) ==
    HeaderField(TIPO, h.t) \o HeaderField(IMPORTE, h.i) \o HeaderField(ESTADO, h.e)
      \o HeaderField(FECHA, h.fc) \o HeaderField(CHEQUE, h.fc)

\* The data rows: [tipo, importe, estado] texts (an empty text is an empty field).
VENTA == <<"V", "E", " ", "-", " ", "V", "e", "n", "t", "a">>
PENDIENTE == <<"P", "E", "N", "D", "I", "E", "N", "T", "E">>
Row(tipo, importe, estado) == [tipo |-> tipo, importe |-> importe, estado |-> estado]
RowKinds ==
    {Row(CO_COMPRA, <<"1", ".", "0", "0", "0", ",", "0", "0">>, ACREDITADO),
     Row(CO_COMPRA, <<"5", "0", "0", ",", "0", "0">>, RECHAZADO),
     Row(CO_COMPRA, <<"1", "0", "0", ",", "0", "0", "-">>, ACREDITADO),
     Row(CO_COMPRA, <<"$", " ", "1", ".", "0", "0", "0", ",", "0", "0", "-">>,
         <<"R", "e", "c", "h", "a", "z", "a", "d", "o">>),
     Row(CO_COMPRA, <<"a", "b", "c">>, ACREDITADO),
     Row(Lower(CO_COMPRA), <<>>, PENDIENTE),
     Row(VENTA, <<"5", "0", "0", ",", "0", "0">>, ACREDITADO)}

\* The line of a data row under a header shape: the fields of the roles present.
LineOf(h, r) ==
    (IF h.t = "absent" THEN <<>> ELSE <<r.tipo>>)
      \o (IF h.i = "absent" THEN <<>> ELSE <<r.importe>>)
      \o (IF h.e = "absent" THEN <<>> ELSE <<r.estado>>)
      \o (IF h.fc = "absent" THEN <<>> ELSE <<<<"1", "2", "/", "0", "3">>, <<"0", "0", "7">>>>)

\* Files whose header names the three required columns carry up to MaxRows
\* rows of every kind; the others carry no row or one.
RowSeqs(h) ==
    IF h.t = "exact" /\ h.i # "absent" /\ h.e = "exact"
    THEN Seqs(RowKinds, MaxRows)
    ELSE {<<>>, <<Row(CO_COMPRA, <<"5", "0", "0", ",", "0", "0">>, RECHAZADO)>>}

LinesOf(h, rs) ==
    IF HeaderOf(h) = <<>> THEN <<>>
    ELSE <<HeaderOf(h)>> \o [k \in 1..Len(rs) |-> LineOf(h, rs[k])]

Quoted(lines) ==
    [k \in 1..Len(lines) |->
        [j \in 1..Len(lines[k]) |-> <<QUOTE>> \o lines[k][j] \o <<QUOTE>>]]

\* The formats of an upload: tab or semicolon text, bare or quoted, and a
\* workbook (with what read_csv makes of its bytes).
Formats ==
    {[kind |-> "text", sep |-> s, as_csv |-> "text", quoted |-> q] :
        s \in {"\t", ";"}, q \in BOOLEAN}
    \cup {[kind |-> "xlsx", sep |-> "", as_csv |-> a, quoted |-> FALSE] :
            a \in {"raises", "raises_midway", "one_column", "two_columns"}}

FileOf(h, rs, fmt) ==
    [kind |-> fmt.kind, sep |-> fmt.sep, as_csv |-> fmt.as_csv,
     lines |-> IF fmt.quoted THEN Quoted(LinesOf(h, rs)) ELSE LinesOf(h, rs)]

\* main after st.file_uploader returned a file: a fresh upload is at offset
\* zero, a rerun of the script finds it where the last run left it.
Init ==
    /\ \E h \in HeaderShapes :
          \E rs \in RowSeqs(h), fmt \in Formats : file = FileOf(h, rs, fmt)
    /\ pos \in {0, Len(file.lines)}
    /\ pc = "cargar_datos"
    /\ strat = 1
    /\ attempts = <<>>
    /\ df = None
    /\ df_filtrado = <<>>
    /\ filas_error = <<>>
    /\ calc = None
    /\ steps = {}
    /\ ui = <<>>
    /\ stop = "none"
    /\ NormIdle

Next ==
    \/ TryStrategy
    \/ ReturnNone
    \/ ReportLoadError
    \/ Validate
    \/ Filter
    \/ Clean
    \/ Aggregate
    \/ Display
    \/ Detail

Spec == Init /\ [][Next]_vars

-----------------------------------------------------------------------------
(* Properties of the normalizer runs (checked under SpecNorm) *)

NormDoneCell == n_pc = "done" /\ n_in.tag = "cell"
NormDoneAmount == n_pc = "done" /\ n_in.tag = "amount" /\ ~IsNa(n_in.v)

\* C1: for every native-numeric cell value v (int or float),
\* limpiar_importe_agresivo(v) returns a value equal to v.
C1_NativeNumberUnchanged ==
    (NormDoneCell /\ n_in.v.kind \in {"int", "float"}) => NumEq(n_out, n_in.v)

\* C7 as stated: every cell text of more than 50 characters, whatever its
\* characters (whitespace included), is classified unparsable without a
\* numeric conversion being attempted.
C7_LongCellUnparsable ==
    (NormDoneCell /\ n_in.v.kind = "str" /\ Len(n_in.v.s) > LongThreshold)
        => (n_out = None /\ ~n_conv)

\* C7 amended: every cell text that is still longer than 50 characters once
\* its surrounding whitespace is trimmed is classified unparsable without a
\* numeric conversion being attempted.
C7_LongTrimmedCellUnparsable ==
    (NormDoneCell /\ n_in.v.kind = "str" /\ Len(Strip(n_in.v.s)) > LongThreshold)
        => (n_out = None /\ ~n_conv)

\* A padded cell of 60 digits was normalized and classified unparsable.
C7_Witness ==
    /\ NormDoneCell
    /\ n_in.v.kind = "str"
    /\ Strip(n_in.v.s) = Rep("7", LongThreshold + 10)
    /\ Len(n_in.v.s) > Len(Strip(n_in.v.s))
    /\ n_out = None
    /\ ~n_conv

\* An amount text under the '.' grouping / ',' decimal convention: digits
\* with '.' between them, then optionally ',' and the decimal digits.
IsAmountText(t) ==
    /\ t # <<>>
    /\ Head(t) \in Digit
    /\ \A i \in 1..Len(t) : t[i] \in Digit \cup {".", ","}
    /\ Count(t, ",") <= 1
    /\ \A i \in 1..Len(t) : \A j \in (i + 1)..Len(t) : t[i] = "," => t[j] \in Digit

\* The cell of the run is an amount text followed by '-'.
TrailingMinusCell ==
    /\ NormDoneCell
    /\ n_in.v.kind = "str"
    /\ Len(n_in.v.s) >= 2
    /\ n_in.v.s[Len(n_in.v.s)] = "-"
    /\ IsAmountText(SubSeq(n_in.v.s, 1, Len(n_in.v.s) - 1))

\* What the normalizer returns for the text without its last character.
WithoutLast(s) == limpiar_importe_agresivo(StrCell(SubSeq(s, 1, Len(s) - 1)))

\* C8 as stated: for every amount text t (digits with '.' grouping and an
\* optional ',' decimal part), normalizing t followed by '-' returns the
\* negation of the number returned for t.
C8_TrailingMinusNegates ==
    TrailingMinusCell =>
        /\ WithoutLast(n_in.v.s).kind = "float"
        /\ n_out = Negate(WithoutLast(n_in.v.s))

\* C8 amended: the same for every such text of at most 50 characters, its
\* '-' included, the sign being moved to the front; a longer one is
\* classified unparsable.
C8_TrailingMinusNegatesWithinThreshold ==
    TrailingMinusCell =>
        IF Len(n_in.v.s) <= LongThreshold
        THEN /\ Head(Limpio(n_in.v.s)) = "-"
             /\ WithoutLast(n_in.v.s).kind = "float"
             /\ n_out = Negate(WithoutLast(n_in.v.s))
        ELSE n_out = None

\* "100,00-" was normalized to -100.00.
C8_Witness ==
    /\ NormDoneCell
    /\ n_in.v = StrCell(<<"1", "0", "0", ",", "0", "0", "-">>)
    /\ n_out = MkFloat(TRUE, <<"1", "0", "0">>, <<>>)

\* C9 as stated: for every amount x of at most two decimal places,
\* limpiar_importe_agresivo(formato_argentino(x)) equals x.
C9_RoundTrip == NormDoneAmount => n_out = n_in.v

\* C9 amended: the round trip reproduces x whenever the formatted text is at
\* most 50 characters long (every |x| below 10^35); a longer formatted text
\* is classified unparsable.
C9_RoundTripWithinThreshold ==
    NormDoneAmount =>
        IF Len(n_txt) <= LongThreshold THEN n_out = n_in.v ELSE n_out = None

\* A negative amount above one million, with cents, made the round trip.
C9_Witness ==
    /\ NormDoneAmount
    /\ n_in.v.neg
    /\ Len(n_in.v.ip) = 8
    /\ n_in.v.fp = <<"2", "5">>
    /\ Count(n_txt, ".") = 2
    /\ Count(n_txt, ",") = 1
    /\ n_out = n_in.v

-----------------------------------------------------------------------------
(* Properties of cargar_datos and main (checked under Spec) *)

\* Structurally valid: more than one column and the required name present.
StructValid(t) ==
    Len(t.columns) > 1 /\ \E i \in 1..Len(t.columns) : t.columns[i] = TIPO

\* What strategy k makes of the file read from offset zero.
FromZero(k) == ReadWith(file, strategies[k], 0)

ValidStrategies ==
    {k \in 1..Len(strategies) :
        \E o \in FromZero(k) : ~o.raised /\ StructValid(o.df)}

\* C2: cargar_datos tries the strategies in list order and returns the table
\* of the earliest structurally valid one; raising and degenerate strategies
\* are skipped; it returns None exactly when no strategy is valid.
C2_FirstValidStrategyWins ==
    pc = "loaded" =>
        /\ \A k \in 1..Len(attempts) : attempts[k].strategy = k
        /\ \A k \in 1..Len(attempts) :
              \E o \in FromZero(k) :
                  o.raised = attempts[k].raised /\ o.df = attempts[k].df
        /\ IF ValidStrategies = {}
           THEN df = None /\ Len(attempts) = Len(strategies)
           ELSE LET first == CHOOSE k \in ValidStrategies :
                                \A j \in ValidStrategies : k <= j
                IN  /\ df # None
                    /\ StructValid(df)
                    /\ Len(attempts) = first
                    /\ \E o \in FromZero(first) : ~o.raised /\ o.df = df

\* Two strategies gave a single-column table and the third one's table was
\* returned.
C2_Witness ==
    /\ pc = "loaded"
    /\ df # None
    /\ Len(attempts) = 3
    /\ ~attempts[1].raised /\ Len(attempts[1].df.columns) = 1
    /\ ~attempts[2].raised /\ Len(attempts[2].df.columns) = 1
    /\ Len(df.columns) > 1

\* C3: every read of cargar_datos starts at offset zero, wherever the file
\* was left before.
C3_EveryReadFromZero == \A k \in 1..Len(attempts) : attempts[k].start = 0

\* Reads that raised midway were each followed by a read from offset zero,
\* the last of which read the whole file.
C3_Witness ==
    /\ Len(attempts) = Len(strategies)
    /\ attempts[1].raised /\ attempts[1].endpos > 0
    /\ attempts[1].endpos < Len(file.lines)
    /\ attempts[2].start = 0
    /\ attempts[4].start = 0
    /\ ~attempts[4].raised
    /\ pos = Len(file.lines)

\* C4: a load failure, a missing required column and an empty filter result
\* each stop the run with their own message before any later step; nothing
\* else stops the run.
C4_OnlyThreeTerminalFailures ==
    /\ stop = "load_error" =>
          (df = None /\ steps = {} /\ ui = <<[msg |-> "load_error"]>>)
    /\ stop = "schema_error" =>
          (steps = {"validate"} /\ Len(ui) = 1 /\ ui[1].msg = "schema_error")
    /\ stop = "empty_filter" =>
          (steps = {"validate", "filter"} /\ ui = <<[msg |-> "empty_warning"]>>)
    /\ pc = "stopped" =>
          stop \in {"load_error", "schema_error", "empty_filter", "complete"}

\* The raw amount cell of a filtered row and what the normalizer makes of it.
RawImporte(r) == r.cells[ColIdx(df, IMPORTE)]
Unparsable(r) == limpiar_importe_agresivo(RawImporte(r)) = None
Contribution(r) ==
    IF Unparsable(r) THEN 0 ELSE Scaled(limpiar_importe_agresivo(RawImporte(r)))

RECURSIVE SumContributions(_, _)
SumContributions(I, rows) ==
    IF I = {} THEN 0
    ELSE LET i == CHOOSE i \in I : TRUE
         IN  Contribution(rows[i]) + SumContributions(I \ {i}, rows)

ParseAlerts == SelectSeq(ui, LAMBDA m : m.msg = "parse_alert")

\* C5: an unparsable amount keeps its row: the row counts as a cheque and
\* adds zero to the total and the subtotals; the reported failure count is
\* the number of unparsable rows and the diagnostic view shows exactly them;
\* a row that normalized to a number (0.0 included) is not reported.
C5_UnparsableRowsKeptAsZero ==
    "normalize" \in steps =>
        LET n == Len(df_filtrado)
            errs == {i \in 1..n : Unparsable(df_filtrado[i])}
            bad == SelectSeq(df_filtrado, Unparsable)
            status(w) == {i \in 1..n : EstadoContains(df, df_filtrado[i], w)}
        IN  /\ n = Cardinality({j \in 1..Len(df.rows) : IsCompra(df, df.rows[j])})
            /\ \A i \in 1..n :
                  df_filtrado[i].Importe_Num =
                      IF i \in errs THEN Zero
                      ELSE limpiar_importe_agresivo(RawImporte(df_filtrado[i]))
            /\ Len(filas_error) = Cardinality(errs)
            /\ \A j \in 1..Len(filas_error) : filas_error[j].cells = bad[j].cells
            /\ IF errs = {}
               THEN ParseAlerts = <<>>
               ELSE /\ Len(ParseAlerts) = 1
                    /\ ParseAlerts[1].count = Cardinality(errs)
                    /\ ParseAlerts[1].rows =
                          [j \in 1..Len(bad) |-> DiagView(df, bad[j])]
            /\ "aggregate" \in steps =>
                  /\ calc.cantidad_cheques = n
                  /\ calc.importe_total = SumContributions(1..n, df_filtrado)
                  /\ calc.total_acreditado =
                        SumContributions(status(ACREDITADO), df_filtrado)
                  /\ calc.total_rechazado =
                        SumContributions(status(RECHAZADO), df_filtrado)

\* Two cheques, one unparsable and one with an empty amount, were counted,
\* and only the first was reported.
C5_Witness ==
    /\ "aggregate" \in steps
    /\ Len(df_filtrado) = 2
    /\ Unparsable(df_filtrado[1])
    /\ RawImporte(df_filtrado[2]) = NaN
    /\ Len(filas_error) = 1
    /\ calc.cantidad_cheques = 2
    /\ calc.importe_total = 0

PctIsRatio(pct, part, total) ==
    /\ pct.den # 0
    /\ IF total = 0 THEN pct.num = 0 ELSE pct = Fraction(part * 100, total)

\* C6: each percentage is its subtotal over the total times 100, and zero
\* when the total is zero, for every total, negative ones included.
C6_PercentagesAreRatios ==
    calc # None =>
        /\ PctIsRatio(calc.pct_acreditado, calc.total_acreditado, calc.importe_total)
        /\ PctIsRatio(calc.pct_rechazado, calc.total_rechazado, calc.importe_total)

\* The header names 'Tipo de Operacion' only with surrounding whitespace.
TipoOnlyPadded ==
    /\ file.lines # <<>>
    /\ LET hdr == [j \in 1..Len(file.lines[1]) |-> Unquote(file.lines[1][j])]
       IN  /\ TIPO \notin Range(hdr)
           /\ \E j \in 1..Len(hdr) : hdr[j] # TIPO /\ Strip(hdr[j]) = TIPO

SchemaErrors == SelectSeq(ui, LAMBDA m : m.msg = "schema_error")

\* C10: when main validates the columns the table has a column named exactly
\* 'Tipo de Operacion', so the schema error lists only 'Importe' and/or
\* 'Estado'; a header that carries the name only padded ends in the load
\* error.
C10_TipoPresentAtValidation ==
    /\ "validate" \in steps => TIPO \in Range(df.columns)
    /\ \A j \in 1..Len(SchemaErrors) :
          /\ SchemaErrors[j].missing # <<>>
          /\ Range(SchemaErrors[j].missing) \subseteq {IMPORTE, ESTADO}
    /\ TipoOnlyPadded =>
          /\ "validate" \notin steps
          /\ pc = "stopped" => stop = "load_error"

\* A tab-separated file with a padded 'Tipo de Operacion' among its columns
\* ended in the load error.
C10_Witness ==
    /\ TipoOnlyPadded
    /\ file.kind = "text"
    /\ file.sep = "\t"
    /\ Len(file.lines[1]) >= 3
    /\ pc = "stopped"
    /\ stop = "load_error"

=============================================================================
